---- MODULE Spec2Model ----
(***************************************************************************)
(* Model of the trigger-level buffered writer of tozd/go-zerolog           *)
(* (triggerLevelWriter, newTriggerLevelWriter, triggerWriterPool) and of   *)
(* the way zerolog.New wires it to the downstream writer.                  *)
(*                                                                         *)
(* Goroutines call WriteLevel, Trigger and Close on sessions.  A call is    *)
(* split at the points where another goroutine can observe it: after the   *)
(* mutex is taken and the first checks are made, after every downstream    *)
(* write of the drain loop, after trigger() returned, and before the       *)
(* deferred Unlock.  A goroutine blocked in Lock is a goroutine whose call *)
(* has not begun yet.                                                      *)
(***************************************************************************)
EXTENDS Integers, Sequences, FiniteSets, TLC

\* ------------------------------------------------------------------ bounds
NumThreads == 2
NumSessions == 2
MaxWrites == 3
MaxPoolWrites == 2
MaxFails == 1
MaxCodecWrites == 2
MaxSeqWrites == 4
MaxNewWrites == 3
MaxMainWrites == 2
MaxLiveWrites == 2

\* --------------------------------------------------------------- constants
TraceLevel == -1
DebugLevel == 0
InfoLevel == 1
ErrorLevel == 3
Disabled == 7
Newline == 10
ByteRange == 256

Nil == 0

Threads == 1..NumThreads
Sessions == 1..NumSessions
BufIds == 1..NumSessions

\* Levels the callers log at, and levels the configuration can hold.
Levels == {DebugLevel, InfoLevel, ErrorLevel}
CfgLevels == {DebugLevel, ErrorLevel}

\* The level whose byte is the newline, the levels a caller of the writer can
\* pass around it (zerolog.Level is an int8; TraceLevel is the negative one), and
\* the byte slices a caller can pass: empty, without a newline, one line, two
\* lines.
NewlineLevel == IF Newline >= 128 THEN Newline - ByteRange ELSE Newline
CodecLevels == {TraceLevel, NewlineLevel, NewlineLevel + 1}
CodecPayloads == {<<>>, <<98>>, <<98, Newline>>, <<98, Newline, 99, Newline>>}

VARIABLES
  cfg,         \* Context configuration captured by the WithContext closure
  created,     \* created[s]: newTriggerLevelWriter has returned session s
  buf,         \* buf[s]: the *bytes.Buffer of session s, Nil after Close
  triggered,   \* triggered[s]
  mu,          \* mu[s]: goroutine holding the session mutex, or Nil
  pool,        \* triggerWriterPool: buffers available to Get
  data,        \* data[b]: the bytes held by buffer b
  out,         \* the downstream writer: every write handed to it, in order
  pc,          \* pc[t]: position of goroutine t
  call,        \* call[t]: the call goroutine t is executing
  rem,         \* rem[t]: the local slice p of trigger()'s drain loop
  ret,         \* ret[t]: the (n, err) the call is about to return
  snap,        \* history: the session as goroutine t found it at Lock
  hist,        \* history: the entries admitted by open sessions, by entry id
  trigCalled,  \* history: Trigger() was called on session s
  drainFailed, \* history: a downstream write failed during the drain of s
  fails        \* number of downstream writes that have failed so far

vars == <<cfg, created, buf, triggered, mu, pool, data, out, pc, call, rem,
          ret, snap, hist, trigCalled, drainFailed, fails>>

\* ------------------------------------------------------- pure functions
\* byte(l) of an int8 level.
ToByte(l) == l % ByteRange

ToLevelOfTrigger(b) == cfg.trig

\* zerolog.Level(b) of a byte: int8 conversion.
ToLevel(b) == IF b >= 128 THEN b - ByteRange ELSE b

\* The serialized entry a logger hands to WriteLevel: one line ending in a
\* newline.  The first byte identifies the entry ("b", "c", ...).
Payload(id) == <<97 + id, Newline>>

\* The record appended to the buffer: level byte, then the payload.
EncodeLevelOnly(l, p) == <<ToByte(l)>>
Encode(l, p) == <<ToByte(l)>> \o p

RECURSIVE IndexFrom(_, _, _)
IndexFrom(p, c, k) ==
  IF k > Len(p) THEN -1
  ELSE IF p[k] = c THEN k - 1
  ELSE IndexFrom(p, c, k + 1)

\* bytes.IndexByte: 0-based index of the first c in p, -1 if there is none.
IndexByte(p, c) == IndexFrom(p, c, 1)

\* line := p[0:i+1] and p = p[i+1:] of the drain loop.
LineOf(p) == SubSeq(p, 1, IndexByte(p, Newline) + 1)
RestOf(p) == SubSeq(p, IndexByte(p, Newline) + 2, Len(p))

\* The conditions of WriteLevel.
MustTriggerStrict(trig, l) == ~trig /\ l > cfg.trig
MustTriggerAboveConditional(trig, l) ==
  ~trig /\ l >= cfg.trig /\ l > cfg.cond
MustTrigger(trig, l) == ~trig /\ l >= cfg.trig

MustBufferAlways(trig, l) == l <= cfg.cond
MustBufferStrict(trig, l) == ~trig /\ l < cfg.cond
MustBufferBelowTrigger(trig, l) == ~trig /\ l < cfg.trig
MustBuffer(trig, l) == ~trig /\ l <= cfg.cond

\* The check every operation makes first: Close has set w.buf to nil.
IsClosed(s) == buf[s] = Nil

\* What an operation returns on a closed session.
ClosedResultNil(op) == "nil"
ClosedResult(op) == IF op = "Close" THEN "nil" ELSE "invalid writer"

\* sync.Mutex: Lock proceeds only when nobody holds the mutex.
CanLockAlways(s) == TRUE
CanLock(s) == mu[s] = Nil

ResetBufKept(b) == data

\* bytes.Buffer.Reset on buffer b.
ResetBuf(b) == IF b = Nil THEN data ELSE [data EXCEPT ![b] = <<>>]

\* The writer zerolog.New hands to newTriggerLevelWriter is the result of
\* zerolog.MultiLevelWriter, a zerolog.LevelWriter.
IsLevelWriter == TRUE

\* What a plain Write tells the downstream writer about the level: nothing (a
\* value outside the int8 range of zerolog.Level).
NoLevelInfo == 2 * ByteRange

\* The write handed to the downstream writer: WriteLevel(level, line) when it
\* is a zerolog.LevelWriter, Write(line) otherwise.
Rec(s, l, line, ok) ==
  [lvl |-> IF IsLevelWriter THEN l ELSE NoLevelInfo, line |-> line, ok |-> ok,
   s |-> s]

NoCall == [op |-> "none", s |-> Nil, l |-> 0, p |-> <<>>, id |-> 0]
NoRet == [n |-> 0, err |-> "none"]
NoSnap == [open |-> FALSE, trig |-> FALSE, data |-> <<>>, outLen |-> 0]

\* ------------------------------------------------------------------- Init
InitState ==
  /\ created = [s \in Sessions |-> FALSE]
  /\ buf = [s \in Sessions |-> Nil]
  /\ triggered = [s \in Sessions |-> FALSE]
  /\ mu = [s \in Sessions |-> Nil]
  /\ pool = {}
  /\ data = [b \in BufIds |-> <<>>]
  /\ out = <<>>
  /\ pc = [t \in Threads |-> "idle"]
  /\ call = [t \in Threads |-> NoCall]
  /\ rem = [t \in Threads |-> <<>>]
  /\ ret = [t \in Threads |-> NoRet]
  /\ snap = [t \in Threads |-> NoSnap]
  /\ hist = <<>>
  /\ trigCalled = [s \in Sessions |-> FALSE]
  /\ drainFailed = [s \in Sessions |-> FALSE]

\* No downstream write has failed yet; up to MaxFails of them will.
InitRest ==
  /\ InitState
  /\ fails = 0

\* Any configuration of the context logger.
Init ==
  /\ cfg \in [cond : CfgLevels, trig : CfgLevels]
  /\ InitRest

\* The default configuration: DefaultContextConditionalLevel and
\* DefaultContextTriggerLevel.
InitPool ==
  /\ cfg = [cond |-> DebugLevel, trig |-> ErrorLevel]
  /\ InitRest

\* A configuration that buffers every level up to the newline level.
InitCodec ==
  /\ cfg = [cond |-> NewlineLevel, trig |-> NewlineLevel + 1]
  /\ InitRest

\* ---------------------------------------------------------------- actions
Held == {buf[s] : s \in {x \in Sessions : created[x]}} \ {Nil}

\* Goroutines are interchangeable: the next call is made by the first idle one.
CanCall(t) == pc[t] = "idle" /\ \A u \in Threads : u < t => pc[u] # "idle"

\* The outcomes a downstream write can have.
Outcomes == IF fails < MaxFails THEN {TRUE, FALSE} ELSE {TRUE}

\* newTriggerLevelWriter: the buffer comes from triggerWriterPool.Get, which
\* returns a pooled buffer or a new, empty one.  Sessions are numbered in the
\* order of their construction.
NewSession(s) ==
  /\ ~created[s]
  /\ \A x \in Sessions : x < s => created[x]
  /\ \/ \E b \in pool :
          /\ pool' = pool \ {b}
          /\ buf' = [buf EXCEPT ![s] = b]
          /\ data' = data
     \/ /\ BufIds \ (pool \cup Held) # {}
        /\ LET b == CHOOSE x \in BufIds \ (pool \cup Held) :
                      \A y \in BufIds \ (pool \cup Held) : x <= y
           IN /\ buf' = [buf EXCEPT ![s] = b]
              /\ data' = [data EXCEPT ![b] = <<>>]
        /\ pool' = pool
  /\ created' = [created EXCEPT ![s] = TRUE]
  /\ triggered' = [triggered EXCEPT ![s] = FALSE]
  /\ UNCHANGED <<cfg, mu, out, pc, call, rem, ret, snap, hist, trigCalled,
                 drainFailed, fails>>

\* A goroutine calls WriteLevel, Trigger or Close on session s and reaches
\* w.mu.Lock().  Nothing can observe the entry of a WriteLevel call that waits
\* for the mutex: its level and bytes are drawn when the session admits it.
Call(t, op, s) ==
  /\ CanCall(t)
  /\ created[s]
  /\ call' = [call EXCEPT ![t] = [NoCall EXCEPT !.op = op, !.s = s]]
  /\ trigCalled' = IF op = "Trigger" THEN [trigCalled EXCEPT ![s] = TRUE]
                   ELSE trigCalled
  /\ pc' = [pc EXCEPT ![t] = "lock"]
  /\ UNCHANGED <<cfg, created, buf, triggered, mu, pool, data, out, rem, ret,
                 snap, hist, drainFailed, fails>>

\* w.mu.Lock() at the top of WriteLevel, Trigger and Close returns, with the
\* record of the session as the call found it.
Lock(t, s) ==
  /\ CanLock(s)
  /\ mu' = [mu EXCEPT ![s] = t]
  /\ snap' = [snap EXCEPT ![t] =
                [open |-> buf[s] # Nil,
                 trig |-> triggered[s],
                 data |-> IF buf[s] = Nil THEN <<>> ELSE data[buf[s]],
                 outLen |-> Len(out)]]

\* The return statement of a call: the result is fixed, the deferred Unlock
\* is still to run.
Return(t, n, err) ==
  /\ ret' = [ret EXCEPT ![t] = [n |-> n, err |-> err]]
  /\ pc' = [pc EXCEPT ![t] = "unlock"]

StartTriggerNoFlag(t, s) ==
  /\ rem' = [rem EXCEPT ![t] = data[buf[s]]]
  /\ pc' = [pc EXCEPT ![t] = "drain"]
  /\ UNCHANGED <<ret, triggered>>

StartTriggerAll(t, s) ==
  /\ triggered' = [x \in Sessions |-> TRUE]
  /\ rem' = [rem EXCEPT ![t] = data[buf[s]]]
  /\ pc' = [pc EXCEPT ![t] = "drain"]
  /\ UNCHANGED ret

StartTriggerLocking(t, s) ==
  /\ triggered' = [triggered EXCEPT ![s] = TRUE]
  /\ rem' = [rem EXCEPT ![t] = data[buf[s]]]
  /\ pc' = [pc EXCEPT ![t] = "lock"]
  /\ UNCHANGED ret

\* The first lines of trigger() for an untriggered session: set the flag and
\* take the buffer's bytes.
StartTrigger(t, s) ==
  /\ triggered' = [triggered EXCEPT ![s] = TRUE]
  /\ rem' = [rem EXCEPT ![t] = data[buf[s]]]
  /\ pc' = [pc EXCEPT ![t] = "drain"]
  /\ UNCHANGED ret

BufferOrForwardPrepend(t, s, l, p) ==
  IF MustBuffer(triggered[s], l)
  THEN /\ data' = [data EXCEPT ![buf[s]] = Encode(l, p) \o data[buf[s]]]
       /\ Return(t, Len(p), "nil")
       /\ UNCHANGED <<out, fails>>
  ELSE \E ok \in Outcomes :
         /\ out' = Append(out, Rec(s, l, p, ok))
         /\ IF ok THEN /\ Return(t, Len(p), "nil")
                       /\ UNCHANGED fails
                  ELSE /\ Return(t, 0, "write failed")
                       /\ fails' = fails + 1
         /\ UNCHANGED data

\* The buffer-or-forward part of WriteLevel (from "Unless triggered" on).
BufferOrForward(t, s, l, p) ==
  IF MustBuffer(triggered[s], l)
  THEN /\ data' = [data EXCEPT ![buf[s]] = data[buf[s]] \o Encode(l, p)]
       /\ Return(t, Len(p), "nil")
       /\ UNCHANGED <<out, fails>>
  ELSE \E ok \in Outcomes :
         /\ out' = Append(out, Rec(s, l, p, ok))
         /\ IF ok THEN /\ Return(t, Len(p), "nil")
                       /\ UNCHANGED fails
                  ELSE /\ Return(t, 0, "write failed")
                       /\ fails' = fails + 1
         /\ UNCHANGED data

\* WriteLevel(l, p) from Lock to its first downstream write: the closed check,
\* the trigger check, and for an entry that does not trigger the
\* buffer-or-forward part.  The entries are numbered in the order in which the
\* open session admits them.
WriteLevelBytes(t, l, p) ==
  /\ pc[t] = "lock"
  /\ call[t].op = "WriteLevel"
  /\ Lock(t, call[t].s)
  /\ LET s == call[t].s
         id == Len(hist) + 1
     IN IF IsClosed(s)
        THEN /\ call' = [call EXCEPT ![t].l = l, ![t].p = p]
             /\ Return(t, 0, ClosedResult("WriteLevel"))
             /\ UNCHANGED <<triggered, data, out, rem, fails, hist>>
        ELSE /\ call' = [call EXCEPT ![t].l = l, ![t].p = p, ![t].id = id]
             /\ hist' = Append(hist,
                               [s |-> s, l |-> l, p |-> p, st |-> "called",
                                via |-> "none"])
             /\ IF MustTrigger(triggered[s], l)
                THEN /\ StartTrigger(t, s)
                     /\ UNCHANGED <<data, out, fails>>
                ELSE /\ BufferOrForward(t, s, l, p)
                     /\ UNCHANGED <<triggered, rem>>
  /\ UNCHANGED <<cfg, created, buf, pool, trigCalled, drainFailed>>

\* WriteLevel as the zerolog logger of the context calls it: one serialized
\* event, a line of its own ending in a newline.
WriteLevel(t, l) == WriteLevelBytes(t, l, Payload(Len(hist) + 1))

\* WriteLevel after trigger() returned nil.
WriteLevelRest(t) ==
  /\ pc[t] = "rest"
  /\ BufferOrForward(t, call[t].s, call[t].l, call[t].p)
  /\ UNCHANGED <<cfg, created, buf, triggered, mu, pool, call, rem, snap,
                 hist, trigCalled, drainFailed>>

TriggerIgnored(t) ==
  /\ pc[t] = "lock"
  /\ call[t].op = "Trigger"
  /\ Lock(t, call[t].s)
  /\ Return(t, 0, IF IsClosed(call[t].s) THEN ClosedResult("Trigger")
                  ELSE "nil")
  /\ UNCHANGED <<triggered, rem>>
  /\ UNCHANGED <<cfg, created, buf, pool, data, out, call, hist, trigCalled,
                 drainFailed, fails>>

\* Trigger from Lock to its first downstream write.
Trigger(t) ==
  /\ pc[t] = "lock"
  /\ call[t].op = "Trigger"
  /\ Lock(t, call[t].s)
  /\ LET s == call[t].s
     IN IF IsClosed(s)
        THEN /\ Return(t, 0, ClosedResult("Trigger"))
             /\ UNCHANGED <<triggered, rem>>
        ELSE IF triggered[s]
        THEN /\ Return(t, 0, "nil")
             /\ UNCHANGED <<triggered, rem>>
        ELSE StartTrigger(t, s)
  /\ UNCHANGED <<cfg, created, buf, pool, data, out, call, hist, trigCalled,
                 drainFailed, fails>>

\* One pass of trigger()'s loop, or its end.  Every way out of trigger() runs
\* the deferred w.buf.Reset().
Drain(t) ==
  /\ pc[t] = "drain"
  /\ LET s == call[t].s
         p == rem[t]
         line == LineOf(p)
     IN IF Len(p) = 0
        THEN /\ data' = ResetBuf(buf[s])
             /\ IF call[t].op = "Trigger"
                THEN Return(t, 0, "nil")
                ELSE /\ pc' = [pc EXCEPT ![t] = "rest"]
                     /\ UNCHANGED ret
             /\ UNCHANGED <<out, rem, drainFailed, fails>>
        ELSE IF Len(line) = 0
        THEN \* line[0] is out of range: the goroutine panics.
             /\ data' = ResetBuf(buf[s])
             /\ Return(t, 0, "panic")
             /\ UNCHANGED <<out, rem, drainFailed, fails>>
        ELSE \E ok \in Outcomes :
               /\ out' = Append(out,
                                Rec(s, ToLevel(line[1]), Tail(line), ok))
               /\ IF ok
                  THEN /\ rem' = [rem EXCEPT ![t] = RestOf(p)]
                       /\ UNCHANGED <<data, pc, ret, drainFailed, fails>>
                  ELSE /\ data' = ResetBuf(buf[s])
                       /\ drainFailed' = [drainFailed EXCEPT ![s] = TRUE]
                       /\ fails' = fails + 1
                       /\ Return(t, 0, "write failed")
                       /\ UNCHANGED rem
  /\ UNCHANGED <<cfg, created, buf, triggered, mu, pool, call, snap, hist,
                 trigCalled>>

CloseResetsFlag(t) ==
  /\ pc[t] = "lock"
  /\ call[t].op = "Close"
  /\ Lock(t, call[t].s)
  /\ LET s == call[t].s
     IN /\ IF IsClosed(s)
           THEN UNCHANGED <<buf, pool, data>>
           ELSE /\ data' = ResetBuf(buf[s])
                /\ pool' = pool \cup {buf[s]}
                /\ buf' = [buf EXCEPT ![s] = Nil]
        /\ triggered' = [triggered EXCEPT ![s] = FALSE]
  /\ Return(t, 0, ClosedResult("Close"))
  /\ UNCHANGED <<cfg, created, out, call, rem, hist, trigCalled, drainFailed,
                 fails>>

CloseKeepsBuf(t) ==
  /\ pc[t] = "lock"
  /\ call[t].op = "Close"
  /\ Lock(t, call[t].s)
  /\ LET s == call[t].s
     IN IF IsClosed(s)
        THEN UNCHANGED <<pool, data>>
        ELSE /\ data' = ResetBuf(buf[s])
             /\ pool' = pool \cup {buf[s]}
  /\ Return(t, 0, ClosedResult("Close"))
  /\ UNCHANGED <<cfg, created, buf, triggered, out, call, rem, hist,
                 trigCalled, drainFailed, fails>>

CloseUnlocked(t) ==
  /\ pc[t] = "lock"
  /\ call[t].op = "Close"
  /\ LET s == call[t].s
     IN IF IsClosed(s)
        THEN UNCHANGED <<buf, pool, data>>
        ELSE /\ data' = ResetBuf(buf[s])
             /\ pool' = pool \cup {buf[s]}
             /\ buf' = [buf EXCEPT ![s] = Nil]
  /\ Return(t, 0, ClosedResult("Close"))
  /\ UNCHANGED <<cfg, created, triggered, mu, snap, out, call, rem, hist,
                 trigCalled, drainFailed, fails>>

CloseNoReset(t) ==
  /\ pc[t] = "lock"
  /\ call[t].op = "Close"
  /\ Lock(t, call[t].s)
  /\ LET s == call[t].s
     IN IF IsClosed(s)
        THEN UNCHANGED <<buf, pool>>
        ELSE /\ pool' = pool \cup {buf[s]}
             /\ buf' = [buf EXCEPT ![s] = Nil]
  /\ Return(t, 0, ClosedResult("Close"))
  /\ UNCHANGED <<cfg, created, triggered, data, out, call, rem, hist,
                 trigCalled, drainFailed, fails>>

\* Close from Lock to its return statement.
Close(t) ==
  /\ pc[t] = "lock"
  /\ call[t].op = "Close"
  /\ Lock(t, call[t].s)
  /\ LET s == call[t].s
     IN IF IsClosed(s)
        THEN UNCHANGED <<buf, pool, data>>
        ELSE /\ data' = ResetBuf(buf[s])
             /\ pool' = pool \cup {buf[s]}
             /\ buf' = [buf EXCEPT ![s] = Nil]
  /\ Return(t, 0, ClosedResult("Close"))
  /\ UNCHANGED <<cfg, created, triggered, out, call, rem, hist, trigCalled,
                 drainFailed, fails>>

\* The deferred w.mu.Unlock(); the call returns to its caller.  The history
\* keeps how a WriteLevel ended: with an error, with its entry handed to the
\* downstream writer (the call's last write), or with its entry in the buffer
\* (the call wrote nothing downstream).
Unlock(t) ==
  /\ pc[t] = "unlock"
  /\ mu' = [mu EXCEPT ![call[t].s] = Nil]
  /\ hist' = IF call[t].id > 0
             THEN [hist EXCEPT
                     ![call[t].id].st =
                       IF ret[t].err = "nil" THEN "ok" ELSE "err",
                     ![call[t].id].via =
                       IF ret[t].err # "nil" THEN "none"
                       ELSE IF Len(out) > snap[t].outLen THEN "writer"
                       ELSE "buffer"]
             ELSE hist
  /\ pc' = [pc EXCEPT ![t] = "idle"]
  /\ call' = [call EXCEPT ![t] = NoCall]
  /\ rem' = [rem EXCEPT ![t] = <<>>]
  /\ ret' = [ret EXCEPT ![t] = NoRet]
  /\ snap' = [snap EXCEPT ![t] = NoSnap]
  /\ UNCHANGED <<cfg, created, buf, triggered, pool, data, out, trigCalled,
                 drainFailed, fails>>

\* The WriteLevel calls that are waiting for the mutex.
Waiting == {t \in Threads : pc[t] = "lock" /\ call[t].op = "WriteLevel"}

\* The calls a goroutine can make on the sessions ss, at most n of them
\* WriteLevel calls.
Calls(ss, n) ==
  \/ \E t \in Threads, s \in ss :
       /\ Len(hist) + Cardinality(Waiting) < n
       /\ Call(t, "WriteLevel", s)
  \/ \E t \in Threads, s \in ss, op \in {"Trigger", "Close"} : Call(t, op, s)

\* The steps of a call after it reached Lock, WriteLevel's first one apart.
Others ==
  \/ \E t \in Threads : WriteLevelRest(t)
  \/ \E t \in Threads : Trigger(t)
  \/ \E t \in Threads : Drain(t)
  \/ \E t \in Threads : Close(t)
  \/ \E t \in Threads : Unlock(t)

Steps ==
  \/ \E t \in Threads, l \in Levels : WriteLevel(t, l)
  \/ Others

\* One session, used by any number of goroutines.
Next ==
  \/ \E s \in {1} : NewSession(s)
  \/ Calls({1}, MaxWrites)
  \/ Steps

Spec == Init /\ [][Next]_vars

\* One session used by one caller at a time: a call is made when the call
\* before it has returned.
NoCallInProgress == \A t \in Threads : pc[t] = "idle"

NextSeq ==
  \/ \E s \in {1} : NewSession(s)
  \/ NoCallInProgress /\ Calls({1}, MaxSeqWrites)
  \/ Steps

SpecSeq == Init /\ [][NextSeq]_vars

\* Several sessions sharing the pool and the downstream writer.
NextPool ==
  \/ \E s \in Sessions : NewSession(s)
  \/ Calls(Sessions, MaxPoolWrites)
  \/ Steps

SpecPool == InitPool /\ [][NextPool]_vars

\* One session whose WriteLevel is called directly, with any level and any
\* bytes.
NextCodec ==
  \/ \E s \in {1} : NewSession(s)
  \/ Calls({1}, MaxCodecWrites)
  \/ \E t \in Threads, l \in CodecLevels, p \in CodecPayloads :
       WriteLevelBytes(t, l, p)
  \/ Others

SpecCodec == InitCodec /\ [][NextCodec]_vars

\* One session used by any number of goroutines, under fair scheduling: a
\* goroutine that can run does run (Go's scheduler), and a goroutine waiting
\* in w.mu.Lock() gets the mutex when it is released again and again
\* (sync.Mutex hands the mutex to a starving waiter).
Admit(t) ==
  \/ \E l \in Levels : WriteLevel(t, l)
  \/ Trigger(t)
  \/ Close(t)

Proceed(t) ==
  \/ WriteLevelRest(t)
  \/ Drain(t)
  \/ Unlock(t)

NextLive ==
  \/ \E s \in {1} : NewSession(s)
  \/ Calls({1}, MaxLiveWrites)
  \/ \E t \in Threads : Admit(t)
  \/ \E t \in Threads : Proceed(t)

Fairness ==
  \A t \in Threads : SF_vars(Admit(t)) /\ WF_vars(Proceed(t))

SpecLive == Init /\ [][NextLive]_vars /\ Fairness

\* ------------------------------------------------------------------- New
\* The configuration New reads: Logging.Context (cond, trig, level),
\* Logging.Console (consoleType, consoleLevel), Logging.File (filePath: a path
\* is set; fileLevel) and Logging.Main (main).
SinkLevels == {DebugLevel, InfoLevel}
ConsoleTypes == {"nocolor", "disable"}
ContextLevels == {DebugLevel, ErrorLevel, Disabled}
MainLevels == {DebugLevel, InfoLevel, ErrorLevel, Disabled}

\* The builtin max.
Max(a, b) == IF a > b THEN a ELSE b

\* The writers New appends: a FilteredLevelWriter with its Level for the
\* console unless its type is "disable", and one for the file when a path is
\* set.
Writers(c) ==
  (IF c.consoleType # "disable"
   THEN <<[sink |-> "console", level |-> c.consoleLevel]>> ELSE <<>>)
  \o (IF c.filePath
      THEN <<[sink |-> "file", level |-> c.fileLevel]>> ELSE <<>>)

\* minOutputLevel as New computes it: it starts at Disabled; the console
\* lowers it to Console.Level; with a file, the test compares Console.Level
\* with it and the assignment takes File.Level.
MinOutputLevelOfConsole(c) ==
  IF c.consoleType # "disable" /\ c.consoleLevel < Disabled
  THEN c.consoleLevel ELSE Disabled

MinOutputLevel(c) ==
  IF c.filePath /\ c.consoleLevel < MinOutputLevelOfConsole(c)
  THEN c.fileLevel ELSE MinOutputLevelOfConsole(c)

MainLoggerLevel(c) == Max(MinOutputLevel(c), c.main)
CtxLoggerLevelOfSinks(c) == MinOutputLevel(c)
CtxLoggerLevel(c) == Max(MinOutputLevel(c), c.level)

\* The main logger writes (otherwise it is zerolog.Nop()).
MainEnabled(c) == Len(Writers(c)) > 0 /\ MainLoggerLevel(c) < Disabled

\* WithContext makes a session (otherwise a zerolog.Nop() logger, and close
\* and trigger functions that do nothing).
CtxEnabledAtAnyLevel(c) == Len(Writers(c)) > 0
CtxEnabled(c) == Len(Writers(c)) > 0 /\ CtxLoggerLevel(c) < Disabled

\* A logger made with Level(level) makes an event of level l: l is not below
\* the logger's level nor below the global level, which New sets to Trace.
ShouldAll(level, l) == l >= TraceLevel
Should(level, l) == l >= level /\ l >= TraceLevel

\* FilteredLevelWriter.WriteLevel hands on the writes at its Level or above;
\* MultiLevelWriter hands every write to each of its writers.  The writes that
\* reach the console (the file), of those handed to the MultiLevelWriter.
Filtered(level, q) == SelectSeq(q, LAMBDA r : r.lvl >= level)

WrittenTo(sink) ==
  LET ws == Writers(cfg)
      is == {i \in 1..Len(ws) : ws[i].sink = sink}
  IN IF is = {} THEN <<>>
     ELSE Filtered(ws[CHOOSE i \in is : TRUE].level, out)

\* Any configuration of the context logger and of the sinks, with a main
\* logger that is off as the tests of WithContext have it, and sinks that
\* accept every write.  New does not read File.Level when no path is set: one
\* value of it stands for all.
InitNew ==
  /\ cfg \in [cond : CfgLevels, trig : CfgLevels, level : ContextLevels,
              consoleType : ConsoleTypes, consoleLevel : SinkLevels,
              filePath : BOOLEAN, fileLevel : SinkLevels, main : {Disabled}]
  /\ cfg.filePath \/ cfg.fileLevel = DebugLevel
  /\ InitState
  /\ fails = MaxFails

\* WithContext: a session from newTriggerLevelWriter, or the context of the
\* else branch, which has no session behind it.
WithContext(s) ==
  IF CtxEnabled(cfg)
  THEN NewSession(s)
  ELSE /\ ~created[s]
       /\ \A x \in Sessions : x < s => created[x]
       /\ created' = [created EXCEPT ![s] = TRUE]
       /\ UNCHANGED <<cfg, buf, triggered, mu, pool, data, out, pc, call, rem,
                      ret, snap, hist, trigCalled, drainFailed, fails>>

\* An entry of level l logged on the logger of context s that the logger does
\* not make an event of: nothing is written.
LogDropped(t, s, l) ==
  /\ CanCall(t)
  /\ created[s]
  /\ ~(CtxEnabled(cfg) /\ Should(CtxLoggerLevel(cfg), l))
  /\ hist' = Append(hist,
                    [s |-> s, l |-> l, p |-> Payload(Len(hist) + 1),
                     st |-> "dropped", via |-> "none"])
  /\ UNCHANGED <<cfg, created, buf, triggered, mu, pool, data, out, pc, call,
                 rem, ret, snap, trigCalled, drainFailed, fails>>

\* An entry the logger of the context makes an event of: WriteLevel on the
\* session.
LogWritten(t, l) ==
  /\ CtxEnabled(cfg)
  /\ Should(CtxLoggerLevel(cfg), l)
  /\ WriteLevel(t, l)

\* The close and trigger functions of a context without a session: func() {}.
NopCall(t, op, s) ==
  /\ CanCall(t)
  /\ NoCallInProgress
  /\ created[s]
  /\ ~CtxEnabled(cfg)
  /\ call' = [call EXCEPT ![t] = [NoCall EXCEPT !.op = op, !.s = s]]
  /\ trigCalled' = IF op = "Trigger" THEN [trigCalled EXCEPT ![s] = TRUE]
                   ELSE trigCalled
  /\ pc' = [pc EXCEPT ![t] = "nop"]
  /\ UNCHANGED <<cfg, created, buf, triggered, mu, pool, data, out, rem, ret,
                 snap, hist, drainFailed, fails>>

NopReturn(t) ==
  /\ pc[t] = "nop"
  /\ pc' = [pc EXCEPT ![t] = "idle"]
  /\ call' = [call EXCEPT ![t] = NoCall]
  /\ UNCHANGED <<cfg, created, buf, triggered, mu, pool, data, out, rem, ret,
                 snap, hist, trigCalled, drainFailed, fails>>

\* One context, used by one caller at a time.
NextNew ==
  \/ \E s \in {1} : WithContext(s)
  \/ NoCallInProgress /\ CtxEnabled(cfg) /\ Calls({1}, MaxNewWrites)
  \/ \E t \in Threads, l \in Levels :
       /\ NoCallInProgress
       /\ Len(hist) < MaxNewWrites
       /\ LogDropped(t, 1, l)
  \/ \E t \in Threads, op \in {"Trigger", "Close"} : NopCall(t, op, 1)
  \/ \E t \in Threads : NopReturn(t)
  \/ \E t \in Threads, l \in Levels : LogWritten(t, l)
  \/ Others

SpecNew == InitNew /\ [][NextNew]_vars

\* The main logger: an entry of level l logged on it is handed to the
\* MultiLevelWriter when the logger makes an event of it.
MainLog(l) ==
  /\ Len(hist) < MaxMainWrites
  /\ LET id == Len(hist) + 1
         p == Payload(id)
     IN IF MainEnabled(cfg) /\ Should(MainLoggerLevel(cfg), l)
        THEN \E ok \in Outcomes :
               /\ out' = Append(out, Rec(Nil, l, p, ok))
               /\ fails' = IF ok THEN fails ELSE fails + 1
               /\ hist' = Append(hist,
                                 [s |-> Nil, l |-> l, p |-> p,
                                  st |-> IF ok THEN "ok" ELSE "err",
                                  via |-> "writer"])
        ELSE /\ hist' = Append(hist,
                               [s |-> Nil, l |-> l, p |-> p,
                                st |-> "dropped", via |-> "none"])
             /\ UNCHANGED <<out, fails>>
  /\ UNCHANGED <<cfg, created, buf, triggered, mu, pool, data, pc, call, rem,
                 ret, snap, trigCalled, drainFailed>>

InitMain ==
  /\ cfg \in [cond : {DebugLevel}, trig : {ErrorLevel}, level : {DebugLevel},
              consoleType : ConsoleTypes, consoleLevel : Levels,
              filePath : BOOLEAN, fileLevel : Levels, main : MainLevels]
  /\ InitRest

NextMain == \E l \in Levels : MainLog(l)

SpecMain == InitMain /\ [][NextMain]_vars

\* ------------------------------------------------ vocabulary of the claims
\* The goroutine is inside a call and holds the mutex.
InCall(t) == pc[t] \in {"drain", "rest", "unlock"}

\* The call of goroutine t is about to return (its result is fixed).
Returning(t) == pc[t] = "unlock"

Closed(s) == created[s] /\ buf[s] = Nil
Open(s) == created[s] /\ buf[s] # Nil

\* The bytes in the buffer of an open session.
BufOf(s) == IF buf[s] = Nil THEN <<>> ELSE data[buf[s]]

\* What the downstream writer sees of a write: its level and its bytes.
Seen(r) == [lvl |-> r.lvl, line |-> r.line]
Entry(id) == [lvl |-> hist[id].l, line |-> hist[id].p]

\* The writes session s handed downstream, and those it has handed
\* downstream since goroutine t took the mutex.
OutOf(s) == SelectSeq(out, LAMBDA r : r.s = s)
Emitted(t) ==
  SelectSeq(SubSeq(out, snap[t].outLen + 1, Len(out)),
            LAMBDA r : r.s = call[t].s)

\* Number of successful downstream writes of entry id.
Delivered(id) ==
  LET p == Payload(id)
  IN Cardinality({i \in 1..Len(out) : out[i].ok /\ out[i].line = p})

\* Entry id lies in the buffer of its session: its level byte followed by its
\* payload.
InBuf(id) ==
  LET b == BufOf(hist[id].s)
      p == Payload(id)
  IN \E k \in 1..Len(b) :
       /\ b[k] = hist[id].l % ByteRange
       /\ k + Len(p) <= Len(b)
       /\ SubSeq(b, k + 1, k + Len(p)) = p

\* The entries of session s admitted before entry n that went to the buffer,
\* in arrival order.
RECURSIVE BufferedBefore(_, _)
BufferedBefore(s, n) ==
  IF n <= 1 THEN <<>>
  ELSE LET m == n - 1
       IN IF hist[m].s = s /\ hist[m].st = "ok" /\ hist[m].l <= cfg.cond
          THEN Append(BufferedBefore(s, m), Entry(m))
          ELSE BufferedBefore(s, m)

IsPrefix(a, b) == Len(a) <= Len(b) /\ a = SubSeq(b, 1, Len(a))

SeenSeq(q) == [i \in 1..Len(q) |-> Seen(q[i])]
AllOk(q) == \A i \in 1..Len(q) : q[i].ok

\* ------------------------------------------------------------------ claims
Accepted(id) == hist[id].st = "ok"

\* C1 as stated: an accepted entry is delivered downstream at most once, and
\* it is neither delivered nor waiting in the buffer only when its session was
\* closed without ever having been triggered.
C1_MissingOnlyIfNeverTriggered ==
  \A id \in 1..Len(hist) :
    Accepted(id) =>
      LET n == Delivered(id)
      IN /\ n <= 1
         /\ n = 0 =>
              \/ Closed(hist[id].s) /\ ~triggered[hist[id].s]
              \/ InBuf(id)

\* C1 (amended): an accepted entry is delivered downstream at most once, and
\* it is neither delivered nor waiting in the buffer only when its session was
\* closed without ever having been triggered, or when a downstream write
\* failed during the drain of its session.
C1_AtMostOnceAndLostOnlyByPolicyOrFailedDrain ==
  \A id \in 1..Len(hist) :
    Accepted(id) =>
      LET n == Delivered(id)
      IN /\ n <= 1
         /\ n = 0 =>
              \/ Closed(hist[id].s) /\ ~triggered[hist[id].s]
              \/ drainFailed[hist[id].s]
              \/ InBuf(id)

\* A closed session whose drain delivered one buffered entry and then failed,
\* losing a later one.
C1_Witness ==
  \E s \in Sessions, i, j \in 1..Len(hist) :
    /\ Closed(s) /\ triggered[s] /\ drainFailed[s]
    /\ hist[i].s = s /\ hist[j].s = s
    /\ Accepted(i) /\ Accepted(j)
    /\ hist[i].l <= cfg.cond /\ hist[i].l < cfg.trig /\ Delivered(i) = 1
    /\ Delivered(j) = 0

\* The index the next admitted entry of the call's session would get: the call's
\* own entry for WriteLevel, the end of the history for Trigger.
CallIdx(t) == IF call[t].op = "WriteLevel" THEN call[t].id ELSE Len(hist) + 1

\* C2: a successful WriteLevel of an entry at or above the trigger level on an
\* open, untriggered session hands downstream, within the call, the buffered
\* entries in arrival order and then the entry itself, behind everything that
\* was forwarded before; a successful WriteLevel on a triggered session hands
\* downstream exactly its entry.
C2_TriggeringWriteDrainsThenForwards ==
  \A t \in Threads :
    (Returning(t) /\ call[t].op = "WriteLevel" /\ snap[t].open
       /\ ret[t].err = "nil") =>
      LET e == Emitted(t)
      IN /\ (~snap[t].trig /\ call[t].l >= cfg.trig) =>
              /\ SeenSeq(e) = Append(BufferedBefore(call[t].s, call[t].id),
                                     Entry(call[t].id))
              /\ AllOk(e)
              /\ triggered[call[t].s]
         /\ snap[t].trig => SeenSeq(e) = <<Entry(call[t].id)>>

\* The scenario of TestWithContext: Debug "no", Info "yes1", Error "yes2" with
\* conditional Debug and trigger Error gives yes1, no, yes2.
C2_Witness ==
  /\ cfg = [cond |-> DebugLevel, trig |-> ErrorLevel]
  /\ Len(hist) = 3
  /\ hist[1].l = DebugLevel /\ hist[2].l = InfoLevel /\ hist[3].l = ErrorLevel
  /\ \E t \in Threads :
       /\ Returning(t) /\ call[t].id = 3 /\ ret[t].err = "nil"
       /\ ~snap[t].trig
       /\ SeenSeq(out) = <<Entry(2), Entry(1), Entry(3)>>

\* C3: a session on which Trigger() was never called and that only got entries
\* below the trigger level and at or below the conditional level has handed
\* nothing downstream when it is closed.
C3_UntriggeredCloseDiscards ==
  \A s \in Sessions :
    (/\ Closed(s)
     /\ ~trigCalled[s]
     /\ \A id \in 1..Len(hist) :
          hist[id].s = s => hist[id].l < cfg.trig /\ hist[id].l <= cfg.cond)
    => OutOf(s) = <<>>

C3_Witness ==
  \E s \in Sessions :
    /\ Closed(s) /\ ~trigCalled[s] /\ OutOf(s) = <<>>
    /\ Len(hist) >= 2
    /\ \A id \in 1..Len(hist) :
         /\ hist[id].s = s /\ Accepted(id)
         /\ hist[id].l < cfg.trig /\ hist[id].l <= cfg.cond

\* C4: no step takes the triggered flag of a session from true to false.
C4_TriggeredIsMonotonic ==
  [][\A s \in Sessions : triggered[s] => triggered'[s]]_vars

\* Close returning on a session whose drain had failed, the flag still set.
C4_Witness ==
  \E t \in Threads :
    /\ Returning(t) /\ call[t].op = "Close" /\ snap[t].open /\ snap[t].trig
    /\ drainFailed[call[t].s] /\ triggered[call[t].s]

\* The entry of the call was handed to the downstream writer.
Handed(id) == \E i \in 1..Len(out) : out[i].line = Payload(id)

\* C5: when WriteLevel returns success, its entry is in the buffer or was handed
\* downstream, and not both.
C5_BufferedXorForwarded ==
  \A t \in Threads :
    (Returning(t) /\ call[t].op = "WriteLevel" /\ ret[t].err = "nil") =>
      \/ InBuf(call[t].id) /\ ~Handed(call[t].id)
      \/ ~InBuf(call[t].id) /\ Handed(call[t].id)

\* A forwarded entry returns while an earlier one waits in the buffer.
C5_Witness ==
  \E t \in Threads :
    /\ Returning(t) /\ call[t].op = "WriteLevel" /\ ret[t].err = "nil"
    /\ call[t].id = 2
    /\ Handed(2) /\ ~InBuf(2) /\ InBuf(1) /\ ~Handed(1)

\* C6: a WriteLevel or Trigger that takes the mutex of a closed session returns
\* "invalid writer", hands nothing downstream and leaves the session as it was.
C6_ClosedSessionIsInvalidWriter ==
  \A t \in Threads :
    (InCall(t) /\ call[t].op \in {"WriteLevel", "Trigger"} /\ ~snap[t].open) =>
      /\ Returning(t)
      /\ ret[t] = [n |-> 0, err |-> "invalid writer"]
      /\ Emitted(t) = <<>>
      /\ Closed(call[t].s)
      /\ triggered[call[t].s] = snap[t].trig

\* An entry at the trigger level is refused by a closed, untriggered session.
C6_Witness ==
  \E t \in Threads :
    /\ Returning(t) /\ call[t].op = "WriteLevel" /\ ~snap[t].open
    /\ call[t].l >= cfg.trig /\ ~triggered[call[t].s]
    /\ \E id \in 1..Len(hist) : Accepted(id)

\* A downstream write of the drain started by the call of goroutine t failed.
DrainFailedIn(t) ==
  LET e == Emitted(t)
  IN \E i \in 1..Len(e) : ~e[i].ok /\ e[i].line # call[t].p

\* C7: when a downstream write of the drain fails, the failing record is the
\* last one the call hands downstream, the call returns the error, the session
\* is triggered; and Trigger on an open, triggered session returns success
\* without handing anything downstream.
C7_FailedDrainStopsAndIsNotRetried ==
  \A t \in Threads :
    /\ (InCall(t) /\ DrainFailedIn(t)) =>
         LET e == Emitted(t)
         IN /\ Returning(t)
            /\ ret[t] = [n |-> 0, err |-> "write failed"]
            /\ triggered[call[t].s]
            /\ ~e[Len(e)].ok
            /\ AllOk(SubSeq(e, 1, Len(e) - 1))
            /\ IsPrefix(SeenSeq(e), BufferedBefore(call[t].s, CallIdx(t)))
    /\ (Returning(t) /\ call[t].op = "Trigger" /\ snap[t].open
          /\ snap[t].trig) =>
         /\ ret[t].err = "nil"
         /\ Emitted(t) = <<>>
         /\ BufOf(call[t].s) = snap[t].data

\* Trigger returns on a session whose drain failed at the first of two buffered
\* entries: neither was delivered, the second was never handed downstream.
C7_Witness ==
  \E t \in Threads :
    /\ Returning(t) /\ call[t].op = "Trigger" /\ snap[t].open /\ snap[t].trig
    /\ drainFailed[call[t].s]
    /\ Len(hist) >= 2 /\ Accepted(1) /\ Accepted(2)
    /\ Handed(1) /\ Delivered(1) = 0 /\ ~Handed(2)

\* C8: an entry above the conditional level is never in the buffer, and a
\* WriteLevel of an entry strictly between the two levels hands exactly that
\* entry downstream and leaves the buffer alone, triggered or not.
C8_AboveConditionalNeverBuffered ==
  /\ \A id \in 1..Len(hist) : InBuf(id) => hist[id].l <= cfg.cond
  /\ \A t \in Threads :
       (Returning(t) /\ call[t].op = "WriteLevel" /\ snap[t].open
          /\ cfg.cond < call[t].l /\ call[t].l < cfg.trig) =>
         /\ SeenSeq(Emitted(t)) = <<Entry(call[t].id)>>
         /\ BufOf(call[t].s) = snap[t].data
         /\ triggered[call[t].s] = snap[t].trig

\* An entry between the levels is forwarded by an untriggered session that
\* holds a buffered entry.
C8_Witness ==
  \E t \in Threads :
    /\ Returning(t) /\ call[t].op = "WriteLevel" /\ snap[t].open
    /\ cfg.cond < call[t].l /\ call[t].l < cfg.trig
    /\ ~triggered[call[t].s] /\ snap[t].data # <<>>

\* Some goroutine is in the drain loop of session s.
Draining(s) == \E t \in Threads : pc[t] = "drain" /\ call[t].s = s

\* C9: the calls on a session exclude each other from Lock to Unlock: at most
\* one goroutine is inside a call on a session and it holds the mutex; while it
\* drains, the buffer is as it found it and everything the session handed
\* downstream since is a prefix of the buffered entries (nothing interposed);
\* outside a drain a triggered session's buffer is empty (nothing appended).
C9_CallsOnASessionAreSerialized ==
  /\ \A t, u \in Threads :
       (t # u /\ InCall(t) /\ InCall(u)) => call[t].s # call[u].s
  /\ \A t \in Threads : InCall(t) => mu[call[t].s] = t
  /\ \A t \in Threads :
       pc[t] = "drain" =>
         /\ BufOf(call[t].s) = snap[t].data
         /\ IsPrefix(SeenSeq(Emitted(t)),
                     BufferedBefore(call[t].s, CallIdx(t)))
  /\ \A s \in Sessions :
       (Open(s) /\ triggered[s] /\ ~Draining(s)) => BufOf(s) = <<>>

\* A WriteLevel waits for the mutex while another goroutine is between two
\* records of the drain of the same session.
C9_Witness ==
  \E t, u \in Threads :
    /\ pc[t] = "drain" /\ Len(Emitted(t)) >= 1 /\ rem[t] # <<>>
    /\ pc[u] = "lock" /\ call[u].s = call[t].s /\ call[u].op = "WriteLevel"

\* C10: two open sessions never hold the same buffer, and the buffer of an open
\* session is not in the pool.
C10_OpenSessionsOwnDistinctBuffers ==
  /\ \A s1, s2 \in Sessions :
       (Open(s1) /\ Open(s2) /\ s1 # s2) => buf[s1] # buf[s2]
  /\ \A s \in Sessions : Open(s) => buf[s] \notin pool

\* Two open sessions, each with an entry in its buffer.
C10_Witness ==
  \E s1, s2 \in Sessions :
    /\ s1 # s2 /\ Open(s1) /\ Open(s2)
    /\ BufOf(s1) # <<>> /\ BufOf(s2) # <<>>

\* The goroutine is at a point of WriteLevel or Trigger from which it still
\* reads or writes w.buf: inside trigger() (the loop over its bytes, the
\* deferred Reset) or before the append that follows it.
UsesBuf(t) == pc[t] \in {"drain", "rest"}

\* C11: a goroutine that is still to read or write the buffer holds the mutex
\* of an open session whose buffer is not in the pool; the buffers in the pool
\* are empty and belong to no open session; and a WriteLevel or Trigger that
\* takes the mutex after Close returns "invalid writer" at once.
C11_NoBufferUseAfterClose ==
  /\ \A t \in Threads :
       UsesBuf(t) =>
         /\ Open(call[t].s)
         /\ mu[call[t].s] = t
         /\ buf[call[t].s] \notin pool
  /\ \A b \in pool : data[b] = <<>> /\ b \notin Held
  /\ \A t \in Threads :
       (InCall(t) /\ call[t].op # "Close" /\ ~snap[t].open) =>
         Returning(t) /\ ret[t].err = "invalid writer"

\* Close returns on a session that held buffered entries while a WriteLevel and
\* nothing else waits for the mutex of that session.
C11_Witness ==
  \E t, u \in Threads :
    /\ Returning(t) /\ call[t].op = "Close" /\ snap[t].open
    /\ snap[t].data # <<>>
    /\ pc[u] = "lock" /\ call[u].op = "WriteLevel" /\ call[u].s = call[t].s
    /\ buf[call[t].s] = Nil /\ pool # {}

\* Goroutine t executes Close in this step.
ClosesNow(t) == pc[t] = "lock" /\ call[t].op = "Close" /\ pc'[t] = "unlock"

\* C12: every Close returns nil; a Close of a closed session changes neither the
\* pool nor the session nor the buffers nor the output; the Close of an open
\* session is the only step that puts a buffer into the pool, it puts the
\* session's buffer, which was not there, and a closed session stays closed: a
\* session's buffer is put into the pool once.
C12_CloseIsIdempotent ==
  [][/\ \A t \in Threads :
          ClosesNow(t) =>
            /\ ret'[t].err = "nil"
            /\ IF buf[call[t].s] = Nil
               THEN UNCHANGED <<buf, pool, data, triggered, out>>
               ELSE /\ buf[call[t].s] \notin pool
                    /\ pool' = pool \cup {buf[call[t].s]}
                    /\ buf'[call[t].s] = Nil
     /\ \A b \in pool' \ pool :
          \E t \in Threads : ClosesNow(t) /\ buf[call[t].s] = b
     /\ \A s \in Sessions : Closed(s) => buf'[s] = Nil]_vars

\* A second Close returns on a session that had accepted an entry; its buffer
\* is in the pool.
C12_Witness ==
  \E t \in Threads :
    /\ Returning(t) /\ call[t].op = "Close" /\ ~snap[t].open
    /\ ret[t].err = "nil"
    /\ pool # {}
    /\ \E id \in 1..Len(hist) : Accepted(id)

\* C13: every Trigger on an open session leaves it triggered with an empty
\* buffer, whatever its drain did; and a Trigger that finds the session
\* triggered (or closed), as a second Trigger does, hands nothing downstream
\* and leaves the flag, the buffer and the session as they were.
C13_TriggerIsIdempotent ==
  \A t \in Threads :
    (Returning(t) /\ call[t].op = "Trigger") =>
      /\ snap[t].open => (triggered[call[t].s] /\ BufOf(call[t].s) = <<>>)
      /\ (snap[t].trig \/ ~snap[t].open) =>
           /\ Emitted(t) = <<>>
           /\ triggered[call[t].s] = snap[t].trig
           /\ BufOf(call[t].s) = snap[t].data
           /\ Open(call[t].s) = snap[t].open

\* A Trigger returns on an open session that an earlier Trigger had triggered
\* and drained: no entry of the session was at the trigger level or above the
\* conditional level, yet the session has handed entries downstream.
C13_Witness ==
  \E t \in Threads :
    /\ Returning(t) /\ call[t].op = "Trigger" /\ snap[t].open /\ snap[t].trig
    /\ Emitted(t) = <<>>
    /\ OutOf(call[t].s) # <<>>
    /\ \A id \in 1..Len(hist) :
         hist[id].l < cfg.trig /\ hist[id].l <= cfg.cond

\* The bytes are one line: they end in a newline and hold no other one.
OneLine(p) == Len(p) >= 1 /\ IndexByte(p, Newline) = Len(p) - 1

\* The drain that the call of goroutine t started on an untriggered session has
\* run to its end without a failing write: trigger() returned nil.
Drained(t) ==
  /\ snap[t].open /\ ~snap[t].trig
  /\ \/ pc[t] = "rest"
     \/ Returning(t) /\ call[t].op = "Trigger" /\ ret[t].err = "nil"

\* The entries that were in the buffer when the call of goroutine t took the
\* mutex of its untriggered session.
BufferedAt(t) ==
  {m \in 1..(CallIdx(t) - 1) :
     hist[m].s = call[t].s /\ Accepted(m) /\ hist[m].l <= cfg.cond}

\* C14 as stated: when the buffered records are one line each, whatever their
\* levels, a drain that ran to its end has handed downstream exactly those
\* records, each with its level and its bytes, in the order of arrival.
C14_DrainRecoversEveryRecord ==
  \A t \in Threads :
    (Drained(t) /\ \A m \in BufferedAt(t) : OneLine(hist[m].p)) =>
      SeenSeq(Emitted(t)) = BufferedBefore(call[t].s, CallIdx(t))

\* C14 for the levels whose byte is not the newline: the round trip holds.
C14_DrainRecoversRecordsOfOtherLevels ==
  \A t \in Threads :
    (/\ Drained(t)
     /\ \A m \in BufferedAt(t) :
          OneLine(hist[m].p) /\ ToByte(hist[m].l) # Newline) =>
      SeenSeq(Emitted(t)) = BufferedBefore(call[t].s, CallIdx(t))

\* A drain has recovered two one-line records, the first at the trace level.
C14_Witness ==
  \E t \in Threads :
    /\ Drained(t)
    /\ BufferedAt(t) = {1, 2}
    /\ hist[1].l = TraceLevel /\ OneLine(hist[1].p) /\ OneLine(hist[2].p)
    /\ SeenSeq(Emitted(t)) = <<Entry(1), Entry(2)>>

\* byte(l) is not the newline, and zerolog.Level(byte(l)) is l again.
Separable(l) == ToByte(l) # Newline /\ ToLevel(ToByte(l)) = l

\* C15 as stated: the level of every entry that WriteLevel was called with has
\* a byte other than the newline, and the byte decodes to the level.
C15_LevelByteIsNeverNewline ==
  \A id \in 1..Len(hist) : Separable(hist[id].l)

\* C15 for the levels other than the newline level: their byte is not the
\* newline and decodes to the level, the trace level (byte 255) included.
C15_OtherLevelBytesRoundTrip ==
  \A id \in 1..Len(hist) :
    /\ hist[id].l # NewlineLevel => Separable(hist[id].l)
    /\ hist[id].l = TraceLevel => ToByte(hist[id].l) = ByteRange - 1

\* WriteLevel was called with the trace level and with the level above the
\* newline level.
C15_Witness ==
  \E i, j \in 1..Len(hist) :
    hist[i].l = TraceLevel /\ hist[j].l = NewlineLevel + 1

\* The call of goroutine t ends in a run-time panic.
Panics(t) == Returning(t) /\ ret[t].err = "panic"

\* C16 as stated: no call ends in a panic, whatever levels and bytes WriteLevel
\* was called with.
C16_NoCallPanics ==
  \A t \in Threads : ~Panics(t)

\* C16 for the payloads that end in a newline: a call panics only when the last
\* entry in the buffer does not end in a newline (an empty payload included).
C16_PanicsOnlyWithoutFinalNewline ==
  \A t \in Threads :
    Panics(t) =>
      /\ snap[t].open /\ ~snap[t].trig /\ triggered[call[t].s]
      /\ \E m \in BufferedAt(t) :
           /\ \A k \in BufferedAt(t) : k <= m
           /\ \/ hist[m].p = <<>>
              \/ hist[m].p[Len(hist[m].p)] # Newline

\* A drain ran to its end over a buffer that held a payload of two lines.
C16_Witness ==
  \E t \in Threads :
    /\ Drained(t)
    /\ \E m \in BufferedAt(t) : Len(hist[m].p) > 2

\* Nothing has been done with session s since its construction: no entry was
\* admitted, Trigger was not called.
Untouched(s) ==
  /\ Open(s)
  /\ ~trigCalled[s]
  /\ \A id \in 1..Len(hist) : hist[id].s # s

\* The bytes of entry id lie in the buffer of session s.
Holds(s, id) ==
  LET b == BufOf(s)
      p == hist[id].p
  IN \E k \in 1..Len(b) :
       k + Len(p) - 1 <= Len(b) /\ SubSeq(b, k, k + Len(p) - 1) = p

\* C17: a session with which nothing has been done yet is untriggered and its
\* buffer is empty, whether the buffer is new or comes from the pool; the
\* buffer of a session holds entries of that session only, and every record a
\* session hands downstream is an entry that was written to that session.
C17_NewSessionStartsEmpty ==
  /\ \A s \in Sessions :
       Untouched(s) => (~triggered[s] /\ BufOf(s) = <<>>)
  /\ \A s \in Sessions, id \in 1..Len(hist) :
       Holds(s, id) => hist[id].s = s
  /\ \A i \in 1..Len(out) :
       \E id \in 1..Len(hist) :
         hist[id].s = out[i].s /\ Entry(id) = Seen(out[i])

\* A session was closed untriggered with an entry in its buffer and has handed
\* nothing downstream; a later session holds that buffer (the pool is empty
\* again) and is triggered.
C17_Witness ==
  \E s1, s2 \in Sessions :
    /\ s1 < s2
    /\ Closed(s1) /\ ~triggered[s1] /\ OutOf(s1) = <<>>
    /\ \E id \in 1..Len(hist) :
         hist[id].s = s1 /\ Accepted(id) /\ hist[id].l <= cfg.cond
    /\ Open(s2) /\ triggered[s2] /\ pool = {}
    /\ \A s \in Sessions : Open(s) => s = s2

\* Where the record of entry id stands in the downstream output.
Pos(id) == CHOOSE i \in 1..Len(out) : out[i].line = hist[id].p

\* Entry id went into the buffer and a drain has handed it downstream; entry id
\* was handed downstream by its own WriteLevel call.
WasDrained(id) == Handed(id) /\ hist[id].via = "buffer"
WasForwarded(id) == Handed(id) /\ hist[id].via # "buffer"

\* The entry whose record stands at place i of the downstream output: the
\* number of its WriteLevel call in the order of the calls, which the first
\* byte of its payload tells.
IdAt(i) == out[i].line[1] - 97

\* C18: two entries of a session that were both forwarded by their own calls,
\* or both buffered and drained, stand downstream in the order of their
\* WriteLevel calls.
C18_OrderWithinEachPathIsCallOrder ==
  \A j \in 2..Len(out) :
    LET b == IdAt(j)
    IN \A i \in 1..(j - 1) :
         LET a == IdAt(i)
         IN (/\ hist[a].s = hist[b].s
             /\ (hist[a].via = "buffer") = (hist[b].via = "buffer")) =>
              a < b

\* Two drained entries stand in call order behind an entry that was written
\* between them and forwarded at once.
C18_Witness ==
  /\ Len(hist) = 3
  /\ WasDrained(1) /\ WasForwarded(2) /\ WasDrained(3)
  /\ Pos(2) < Pos(1) /\ Pos(1) < Pos(3)

\* No entry of session s reached the trigger level.
NoneReachedTrigger(s) ==
  \A id \in 1..Len(hist) : hist[id].s = s => hist[id].l < cfg.trig

\* C19: a successful Trigger on an open, untriggered session hands downstream
\* the buffered entries, all of them and in arrival order, and leaves the
\* session triggered with an empty buffer, also when no entry reached the
\* trigger level; a WriteLevel on the session triggered this way hands its
\* entry downstream in the call, whatever its level, and buffers nothing.
C19_ExplicitTriggerFlushesAndDisablesBuffering ==
  \A t \in Threads :
    /\ (Returning(t) /\ call[t].op = "Trigger" /\ snap[t].open
          /\ ~snap[t].trig /\ ret[t].err = "nil") =>
         /\ SeenSeq(Emitted(t)) = BufferedBefore(call[t].s, CallIdx(t))
         /\ AllOk(Emitted(t))
         /\ triggered[call[t].s]
         /\ BufOf(call[t].s) = <<>>
    /\ (Returning(t) /\ call[t].op = "WriteLevel" /\ snap[t].open
          /\ snap[t].trig /\ trigCalled[call[t].s]) =>
         /\ SeenSeq(Emitted(t)) = <<Entry(call[t].id)>>
         /\ BufOf(call[t].s) = <<>>
         /\ ret[t].err = (IF Emitted(t)[1].ok THEN "nil" ELSE "write failed")

\* Trigger has drained two buffered entries of a session none of whose entries
\* reached the trigger level, and a WriteLevel at the conditional level returns
\* with its entry forwarded.
C19_Witness ==
  \E t \in Threads :
    /\ Returning(t) /\ call[t].op = "WriteLevel" /\ snap[t].open
    /\ snap[t].trig /\ trigCalled[call[t].s]
    /\ NoneReachedTrigger(call[t].s)
    /\ call[t].id = 3 /\ call[t].l <= cfg.cond
    /\ SeenSeq(out) = <<Entry(1), Entry(2), Entry(3)>>
    /\ hist[1].via = "buffer" /\ hist[2].via = "buffer"

\* C20: with the conditional level equal to the trigger level, an entry at or
\* above that level is never in the buffer; its WriteLevel on an open session
\* leaves the session triggered and, unless a write of the drain it started
\* failed, ends with the entry handed downstream (alone, when no lower entry
\* was buffered); and such entries stand downstream in the order of their
\* calls.
C20_EqualLevelsPassStraightThrough ==
  cfg.cond = cfg.trig =>
    /\ \A id \in 1..Len(hist) : hist[id].l >= cfg.trig => ~InBuf(id)
    /\ \A t \in Threads :
         (Returning(t) /\ call[t].op = "WriteLevel" /\ snap[t].open
            /\ call[t].l >= cfg.trig) =>
           /\ triggered[call[t].s]
           /\ ~DrainFailedIn(t) =>
                LET e == Emitted(t)
                IN /\ e # <<>>
                   /\ Seen(e[Len(e)]) = Entry(call[t].id)
                   /\ ret[t].err =
                        (IF e[Len(e)].ok THEN "nil" ELSE "write failed")
                   /\ snap[t].data = <<>> => Len(e) = 1
    /\ \A j \in 2..Len(out) :
         \A i \in 1..(j - 1) :
           (/\ out[i].s = out[j].s
            /\ out[i].lvl >= cfg.trig /\ out[j].lvl >= cfg.trig) =>
             IdAt(i) < IdAt(j)

\* The scenario of TestWithContext with both levels at Debug: Debug "no", Info
\* "yes1" and Error "yes2" are downstream in that order when the third call
\* returns, and nothing was ever buffered.
C20_Witness ==
  /\ cfg = [cond |-> DebugLevel, trig |-> DebugLevel]
  /\ Len(hist) = 3
  /\ hist[1].l = DebugLevel /\ hist[2].l = InfoLevel /\ hist[3].l = ErrorLevel
  /\ hist[1].via = "writer" /\ hist[2].via = "writer"
  /\ \E t \in Threads :
       /\ Returning(t) /\ call[t].id = 3 /\ ret[t].err = "nil"
       /\ SeenSeq(Emitted(t)) = <<Entry(3)>>
       /\ SeenSeq(out) = <<Entry(1), Entry(2), Entry(3)>>

\* The session of entry id is open and was never triggered.
Untriggered(id) == Open(hist[id].s) /\ ~triggered[hist[id].s]

Passed(id) == hist[id].st # "dropped"

\* C22: with Context.Level equal to Context.TriggerLevel, every entry of which
\* the context logger makes an event is at or above the trigger level, and the
\* buffer of the session is empty in every state.
C22_LevelEqualToTriggerLevelKeepsBufferEmpty ==
  cfg.level = cfg.trig =>
    /\ \A id \in 1..Len(hist) : Passed(id) => hist[id].l >= cfg.trig
    /\ \A s \in Sessions : BufOf(s) = <<>>

\* Level and trigger level are both Error, the conditional level is Debug and
\* a sink takes Debug: the Debug entry was dropped by the logger, the Error
\* entry triggered the session and was handed downstream by its own call.
C22_Witness ==
  /\ cfg.level = ErrorLevel /\ cfg.trig = ErrorLevel /\ cfg.cond = DebugLevel
  /\ MinOutputLevel(cfg) = DebugLevel
  /\ Len(hist) = 2
  /\ hist[1].l = DebugLevel /\ ~Passed(1)
  /\ hist[2].l = ErrorLevel /\ hist[2].via = "writer" /\ Handed(2)
  /\ triggered[1] /\ Open(1)

\* The record at place i of the downstream output reached the sink.
Reached(sink, i) ==
  \E j \in 1..Len(WrittenTo(sink)) : WrittenTo(sink)[j].line = out[i].line

\* C23: every record the session hands downstream, by a drain or by the call
\* of its entry, carries the level its entry was logged with, and it reaches a
\* sink exactly when that level is at or above the level of the sink: no sink
\* receives an entry below its level.
C23_DrainedEntriesPassTheSinkFilters ==
  \A w \in {Writers(cfg)[k] : k \in 1..Len(Writers(cfg))} :
    \A i \in 1..Len(out) :
      /\ out[i].lvl = hist[IdAt(i)].l
      /\ Reached(w.sink, i) <=> hist[IdAt(i)].l >= w.level

\* The console takes Debug and the file Info, the conditional level is Debug
\* and the trigger level Error: Debug "no" was buffered and drained with its
\* level, the console received all three entries, the file received Info
\* "yes1" and Error "yes2" only.
C23_Witness ==
  /\ cfg.consoleType = "nocolor" /\ cfg.consoleLevel = DebugLevel
  /\ cfg.filePath /\ cfg.fileLevel = InfoLevel
  /\ cfg.cond = DebugLevel /\ cfg.trig = ErrorLevel /\ cfg.level = DebugLevel
  /\ Len(hist) = 3
  /\ hist[1].l = DebugLevel /\ hist[2].l = InfoLevel /\ hist[3].l = ErrorLevel
  /\ WasDrained(1) /\ WasForwarded(2) /\ WasForwarded(3)
  /\ SeenSeq(WrittenTo("console")) = <<Entry(2), Entry(1), Entry(3)>>
  /\ SeenSeq(WrittenTo("file")) = <<Entry(2), Entry(3)>>

\* The lowest level of the enabled sinks (Disabled when there is none).
LowestSinkLevel(c) ==
  LET ls == {Writers(c)[k].level : k \in 1..Len(Writers(c))}
  IN IF ls = {} THEN Disabled
     ELSE CHOOSE l \in ls : \A m \in ls : l <= m

\* C24: an entry logged on the context logger below the logger's level, and
\* so every entry below the maximum of Context.Level and the lowest level of
\* the enabled sinks, never reaches the session: no WriteLevel is called for
\* it, it is not in the buffer and it is never handed downstream, whatever
\* triggers follow.
C24_EntriesBelowTheLoggerLevelNeverReachTheSession ==
  \A id \in 1..Len(hist) :
    (\/ hist[id].l < CtxLoggerLevel(cfg)
     \/ hist[id].l < Max(cfg.level, LowestSinkLevel(cfg))) =>
      /\ ~Passed(id)
      /\ ~InBuf(id)
      /\ ~Handed(id)

\* The sinks take Debug and Context.Level is Error, above the conditional
\* level Debug: the Debug entry logged first was dropped, and it is nowhere
\* after an Error entry triggered the session and Trigger was called as well.
C24_Witness ==
  /\ cfg.level = ErrorLevel /\ LowestSinkLevel(cfg) = DebugLevel
  /\ cfg.cond = DebugLevel /\ cfg.trig = ErrorLevel
  /\ Len(hist) = 2
  /\ hist[1].l = DebugLevel /\ ~Passed(1) /\ ~Handed(1)
  /\ hist[2].l = ErrorLevel /\ Accepted(2) /\ Handed(2)
  /\ triggered[1] /\ trigCalled[1]
  /\ \E t \in Threads : Returning(t) /\ call[t].op = "Trigger"

\* Entry id reached the sink.
ReachedSink(sink, id) ==
  \E j \in 1..Len(WrittenTo(sink)) : WrittenTo(sink)[j].line = hist[id].p

\* C25 as stated: with the console and the file both enabled, an entry logged
\* on the main logger at level l is appended to the file exactly when l is at
\* or above File.Level and Main.Level, and written to the console exactly when
\* l is at or above Console.Level and Main.Level.
C25_EachSinkFiltersByItsOwnLevel ==
  (cfg.consoleType # "disable" /\ cfg.filePath) =>
    \A id \in 1..Len(hist) :
      /\ ReachedSink("file", id) <=>
           (hist[id].l >= cfg.fileLevel /\ hist[id].l >= cfg.main)
      /\ ReachedSink("console", id) <=>
           (hist[id].l >= cfg.consoleLevel /\ hist[id].l >= cfg.main)

\* What the code does instead: the entry must also be at or above the level
\* New computed for the main logger, which is Console.Level or above when the
\* console is enabled, whatever File.Level is.
C25_SinksFilterWhatTheMainLoggerPasses ==
  \A id \in 1..Len(hist) :
    /\ ReachedSink("file", id) <=>
         /\ cfg.filePath
         /\ hist[id].l >= cfg.fileLevel
         /\ hist[id].l >= MainLoggerLevel(cfg)
    /\ ReachedSink("console", id) <=>
         /\ cfg.consoleType # "disable"
         /\ hist[id].l >= cfg.consoleLevel
         /\ hist[id].l >= MainLoggerLevel(cfg)

\* Console at Info, file at Debug, Main.Level Debug: a Debug entry logged on
\* the main logger did not reach the file.
C25_Witness ==
  /\ cfg.consoleType # "disable" /\ cfg.consoleLevel = InfoLevel
  /\ cfg.filePath /\ cfg.fileLevel = DebugLevel
  /\ cfg.main = DebugLevel
  /\ Len(hist) = 1
  /\ hist[1].l = DebugLevel
  /\ ~ReachedSink("file", 1)

\* C26: under fair scheduling, with downstream writes that always return
\* (with success or with an error), every WriteLevel, Trigger and Close call
\* that was made returns, and the goroutine no longer holds the mutex of any
\* session then; this includes the calls that wait for the mutex while a
\* WriteLevel call drains the buffer under it.
C26_EveryCallReturnsAndUnlocks ==
  \A t \in Threads :
    (pc[t] # "idle") ~> (pc[t] = "idle" /\ \A s \in Sessions : mu[s] # t)

\* A WriteLevel call has triggered the session and drained a buffered record
\* under the mutex, and another goroutine's call waits for the mutex.
C26_Witness ==
  \E t \in Threads, u \in Threads :
    /\ pc[t] = "rest" /\ call[t].op = "WriteLevel"
    /\ mu[call[t].s] = t
    /\ Len(out) > snap[t].outLen
    /\ pc[u] = "lock" /\ call[u].s = call[t].s

\* The levels of the records in the bytes p of a buffer, as the drain loop
\* would read them.
RECURSIVE LevelsIn(_)
LevelsIn(p) ==
  IF Len(p) = 0 \/ Len(LineOf(p)) = 0 THEN {}
  ELSE {ToLevel(LineOf(p)[1])} \cup LevelsIn(RestOf(p))

\* C27: for an open session, in every state outside the drain loop (which
\* runs under the mutex, between setting the flag and the deferred Reset),
\* triggered implies that the buffer is empty, also after a drain that a
\* downstream failure aborted; and in every state every record in the buffer
\* has a level at or below conditionalLevel and below triggerLevel.
C27_TriggeredSessionHasEmptyBuffer ==
  \A s \in Sessions :
    Open(s) =>
      /\ (triggered[s] /\ ~Draining(s)) => BufOf(s) = <<>>
      /\ ~triggered[s] => ~drainFailed[s]
      /\ \A l \in LevelsIn(BufOf(s)) : l <= cfg.cond /\ l < cfg.trig

\* A drain of two buffered entries failed at the first one: the session is
\* open and triggered, its buffer is empty, the second entry was never handed
\* downstream.
C27_Witness ==
  /\ Open(1) /\ triggered[1] /\ drainFailed[1] /\ ~Draining(1)
  /\ Len(hist) >= 2
  /\ hist[1].via = "buffer" /\ hist[2].via = "buffer"
  /\ Handed(1) /\ Delivered(1) = 0 /\ ~Handed(2)
  /\ BufOf(1) = <<>>

\* The record at place i of the downstream output is the one a drain failed
\* at: the write failed and its entry had gone into the buffer.
FailedDrainAt(i) == ~out[i].ok /\ hist[IdAt(i)].via = "buffer"

\* C28: a WriteLevel call whose drain hit a failing downstream write returns
\* (0, error) with its own entry neither in the buffer nor handed downstream
\* and with the buffer empty; the entry of a call that returned an error is
\* never delivered later, and a buffered record behind the one the drain
\* failed at is never handed downstream.
C28_FailedDrainDropsTheTriggeringEntry ==
  /\ \A t \in Threads :
       (InCall(t) /\ call[t].op = "WriteLevel" /\ DrainFailedIn(t)) =>
         /\ Returning(t)
         /\ ret[t] = [n |-> 0, err |-> "write failed"]
         /\ ~InBuf(call[t].id)
         /\ ~Handed(call[t].id)
         /\ BufOf(call[t].s) = <<>>
  /\ \A id \in 1..Len(hist) : hist[id].st = "err" => Delivered(id) = 0
  /\ \A i \in 1..Len(out) :
       FailedDrainAt(i) =>
         \A id \in 1..Len(hist) :
           (/\ hist[id].s = out[i].s
            /\ hist[id].via = "buffer"
            /\ id > IdAt(i)) =>
             ~Handed(id)

\* An Error entry triggered the drain of two buffered Debug entries, the
\* write of the first one failed: the call returned the error, and later
\* calls (a further WriteLevel, whose entry was forwarded) have not brought
\* back the second Debug entry nor the Error entry.
C28_Witness ==
  /\ Len(hist) = 4
  /\ hist[1].via = "buffer" /\ hist[2].via = "buffer"
  /\ hist[3].l >= cfg.trig /\ hist[3].st = "err"
  /\ Handed(1) /\ Delivered(1) = 0
  /\ ~Handed(2) /\ ~Handed(3)
  /\ Accepted(4) /\ Delivered(4) = 1
  /\ BufOf(1) = <<>>

\* The step is one of a call on session s: of a goroutine that is in such a
\* call before or after it.
StepOn(s) ==
  \E t \in Threads :
    /\ \/ pc[t] # "idle" /\ call[t].s = s
       \/ pc'[t] # "idle" /\ call'[t].s = s
    /\ pc'[t] # pc[t] \/ rem'[t] # rem[t]

\* C29: with several sessions sharing the pool and the downstream writer, a
\* step changes the triggered flag or the buffer contents of a session only
\* when it is a step of a call on that session, and a record handed
\* downstream is one of the session the step belongs to: no WriteLevel,
\* Trigger or Close on one session triggers or flushes another one.
C29_SessionsAreIndependent ==
  [][\A s \in Sessions :
       /\ (triggered'[s] # triggered[s] \/ BufOf(s)' # BufOf(s)) =>
            (StepOn(s) \/ created'[s] # created[s])
       /\ (Len(out') > Len(out) /\ out'[Len(out')].s = s) => StepOn(s)]_vars

\* Two open sessions: the Debug entry of one is in its buffer, untouched,
\* after an Error entry triggered the other and was handed downstream.
C29_Witness ==
  \E s \in Sessions, x \in Sessions :
    /\ s # x /\ Open(s) /\ Open(x)
    /\ triggered[s] /\ ~triggered[x]
    /\ Len(hist) = 2
    /\ hist[1].s = x /\ Accepted(1) /\ InBuf(1) /\ ~Handed(1)
    /\ hist[2].s = s /\ hist[2].l >= cfg.trig /\ Accepted(2) /\ Handed(2)

\* C30: when no sink is enabled or Context.Level is Disabled, the context
\* WithContext returns has no session behind it: no buffer is taken from the
\* pool, no WriteLevel, Trigger or Close of a session runs, and whatever is
\* logged, triggered and closed, nothing is handed downstream or reaches a
\* sink.
C30_DisabledContextLoggerIsNoOp ==
  (Len(Writers(cfg)) = 0 \/ cfg.level = Disabled) =>
    /\ \A s \in Sessions : buf[s] = Nil /\ ~triggered[s] /\ mu[s] = Nil
    /\ pool = {} /\ Held = {}
    /\ \A b \in BufIds : data[b] = <<>>
    /\ \A t \in Threads : pc[t] \in {"idle", "nop"}
    /\ \A id \in 1..Len(hist) : ~Passed(id)
    /\ out = <<>>
    /\ WrittenTo("console") = <<>> /\ WrittenTo("file") = <<>>

\* Context.Level is Disabled and the console is enabled: after an Error entry
\* was logged on the context and its trigger function was called, its close
\* function is running, and nothing was written.
C30_Witness ==
  /\ cfg.level = Disabled /\ cfg.consoleType # "disable"
  /\ created[1]
  /\ Len(hist) >= 1 /\ hist[1].l = ErrorLevel /\ ~Passed(1)
  /\ trigCalled[1]
  /\ \E t \in Threads : pc[t] = "nop" /\ call[t].op = "Close"
  /\ out = <<>>

====
